---- MODULE Spec2Model ----
(***************************************************************************)
(* A model of the ffi package: the C type model (ffi/model.py), the FFI    *)
(* facade with its three caches and the FFILibrary proxy (ffi/api.py).     *)
(* The C declaration parser (ffi/cparser.py) and the backend are not part  *)
(* of the modelled sources; they appear here by their interface only.      *)
(***************************************************************************)
EXTENDS Integers, Sequences, FiniteSets, TLC

(***************************************************************************)
(* Bounds of the model.                                                    *)
(***************************************************************************)
RecursionLimit == 12
MaxLoads == 1
MaxValue == 1

(***************************************************************************)
(* Python's None, and optional attributes: None is the empty set, a        *)
(* present value x is the singleton {x}.                                   *)
(***************************************************************************)
None == {}
Some(x) == {x}
TheValue(opt) == CHOOSE x \in opt : TRUE

\* TheValue({e(x) : x \in {v}}) is e(v), with v evaluated once: the way the
\* operators below name the result of a call they then use several times.

(***************************************************************************)
(* model.py: the classes of Logical Type Nodes and their constructors.     *)
(* A node is an object of the heap; attributes that hold nodes hold their  *)
(* object ids.                                                             *)
(***************************************************************************)
VoidType == [cls |-> "VoidType"]
PrimitiveType(name) == [cls |-> "PrimitiveType", name |-> name]
FunctionType(name, args, result, ellipsis) ==
    [cls |-> "FunctionType", name |-> name, args |-> args,
     result |-> result, ellipsis |-> ellipsis]
PointerType(totype) == [cls |-> "PointerType", totype |-> totype]
\* ArrayType.__init__ wraps the item into a PointerType object of its own;
\* itemobj is the id of that wrapper object.
ArrayType(itemobj, length) ==
    [cls |-> "ArrayType", item |-> itemobj, length |-> length]
StructType(name, fldnames, fldtypes, fldbitsize) ==
    [cls |-> "StructType", name |-> name, fldnames |-> fldnames,
     fldtypes |-> fldtypes, fldbitsize |-> fldbitsize]
UnionType(name, fldnames, fldtypes, fldbitsize) ==
    [cls |-> "UnionType", name |-> name, fldnames |-> fldnames,
     fldtypes |-> fldtypes, fldbitsize |-> fldbitsize]
EnumType(name, enumerators, enumvalues) ==
    [cls |-> "EnumType", name |-> name, enumerators |-> enumerators,
     enumvalues |-> enumvalues]

(***************************************************************************)
(* The primitive names the parser produces, and the node objects it        *)
(* builds.  The object built by parse_type for a primitive carries the     *)
(* primitive's name as its id; the other ids name the place that built     *)
(* the object.                                                             *)
(***************************************************************************)
CNames == <<"long long", "long", "int", "short", "char">>
PrimNames == {"long long", "long", "int", "short", "char", "signed char",
              "unsigned long long", "unsigned long", "unsigned int",
              "unsigned short", "unsigned char"}

Heap ==
    [n \in PrimNames |-> PrimitiveType(n)] @@
    ("void" :> VoidType) @@
    \* built by cdef("int printf(const char *, ...); int v;")
    ("int/cdef" :> PrimitiveType("int")) @@
    ("char/cdef" :> PrimitiveType("char")) @@
    ("char*/cdef" :> PointerType("char/cdef")) @@
    ("printf/cdef" :> FunctionType("printf", <<"char*/cdef">>, "int/cdef", TRUE)) @@
    \* built by cdef of the struct declarations
    ("Node" :> StructType("Node", Some(<<"next">>), Some(<<"Node*/field">>), Some(<<-1>>))) @@
    ("Node*/field" :> PointerType("Node")) @@
    ("A" :> StructType("A", Some(<<"b">>), Some(<<"B*/field">>), Some(<<-1>>))) @@
    ("B*/field" :> PointerType("B")) @@
    ("B" :> StructType("B", Some(<<"a", "n">>), Some(<<"A*/field", "int/B">>), Some(<<-1, 3>>))) @@
    ("A*/field" :> PointerType("A")) @@
    ("int/B" :> PrimitiveType("int")) @@
    ("Opaque" :> StructType("Opaque", None, None, None)) @@
    ("Outer" :> StructType("Outer", Some(<<"x", "o">>), Some(<<"int/Outer", "Opaque">>), Some(<<-1, -1>>))) @@
    ("int/Outer" :> PrimitiveType("int")) @@
    \* built by parse_type("struct Node *") and by the force_pointer parses
    ("Node*/parse" :> PointerType("Node")) @@
    ("Node*/new" :> PointerType("Node")) @@
    ("int*/new" :> PointerType("int")) @@
    \* built by parse_type("int (int)")
    ("int/sig" :> PrimitiveType("int")) @@
    ("int (int)" :> FunctionType("", <<"int/sig">>, "int/sig", FALSE)) @@
    \* further nodes, built directly through the constructors
    ("Node/other" :> StructType("Node", Some(<<"x">>), Some(<<"int">>), Some(<<-1>>))) @@
    ("Node/bits" :> StructType("Node", Some(<<"next">>), Some(<<"Node*/field">>), Some(<<4>>))) @@
    ("Node/union" :> UnionType("Node", Some(<<"next">>), Some(<<"Node*/field">>), Some(<<-1>>))) @@
    ("List" :> StructType("List", Some(<<"next">>), Some(<<"Node*/field">>), Some(<<-1>>))) @@
    ("E" :> EnumType("E", <<"a", "b">>, <<0, 1>>)) @@
    ("E/other" :> EnumType("E", <<"a", "c">>, <<0, 1>>)) @@
    ("E/values" :> EnumType("E", <<"a", "b">>, <<0, 5>>)) @@
    ("F" :> EnumType("F", <<"a", "b">>, <<0, 1>>)) @@
    ("puts" :> FunctionType("puts", <<"char*/cdef">>, "int/cdef", TRUE)) @@
    ("printf/fixed" :> FunctionType("printf", <<"char*/cdef">>, "int/cdef", FALSE)) @@
    ("printf/void" :> FunctionType("printf", <<"char*/cdef">>, "void", TRUE)) @@
    ("int[3]" :> ArrayType("int[3].item", Some(3))) @@
    ("int[3].item" :> PointerType("int")) @@
    ("int[]" :> ArrayType("int[].item", None)) @@
    ("int[].item" :> PointerType("int/cdef"))

NodeIds == DOMAIN Heap

(***************************************************************************)
(* model.py, BaseType: structural equality and hash over _attrs_.          *)
(***************************************************************************)
\* an equality that also looks at the fields and the enumerators
AttrsWithMembers(cls) ==
    CASE cls = "VoidType" -> <<>>
      [] cls = "PrimitiveType" -> <<"name">>
      [] cls = "FunctionType" -> <<"args", "result", "ellipsis">>
      [] cls = "PointerType" -> <<"totype">>
      [] cls = "ArrayType" -> <<"item", "length">>
      [] cls = "StructType" -> <<"name", "fldnames", "fldbitsize">>
      [] cls = "UnionType" -> <<"name", "fldnames", "fldbitsize">>
      [] cls = "EnumType" -> <<"name", "enumerators", "enumvalues">>

Attrs(cls) ==
    CASE cls = "VoidType" -> <<>>
      [] cls = "PrimitiveType" -> <<"name">>
      [] cls = "FunctionType" -> <<"args", "result", "ellipsis">>
      [] cls = "PointerType" -> <<"totype">>
      [] cls = "ArrayType" -> <<"item", "length">>
      [] cls = "StructType" -> <<"name">>
      [] cls = "UnionType" -> <<"name">>
      [] cls = "EnumType" -> <<"name">>

\* the attributes whose value is a node, and the one whose value is a tuple
\* of nodes; comparing or hashing such a value calls the nodes' own methods
NodeAttrs == {"totype", "item", "result"}
NodesAttrs == {"args"}

RECURSIVE Eq(_, _)
ValueEq(attr, x, y) ==
    IF attr \in NodeAttrs THEN Eq(x, y)
    ELSE IF attr \in NodesAttrs
         THEN /\ Len(x) = Len(y)
              /\ \A i \in 1..Len(x) : Eq(x[i], y[i])
         ELSE x = y

Eq(a, b) ==
    /\ Heap[a].cls = Heap[b].cls
    /\ LET at == Attrs(Heap[a].cls)
       IN \A i \in 1..Len(at) : ValueEq(at[i], Heap[a][at[i]], Heap[b][at[i]])

RECURSIVE Hash(_)
ValueHash(attr, x) ==
    IF attr \in NodeAttrs THEN Hash(x)
    ELSE IF attr \in NodesAttrs
         THEN [i \in 1..Len(x) |-> Hash(x[i])]
         ELSE <<x>>

Hash(a) ==
    LET at == Attrs(Heap[a].cls)
    IN <<Heap[a].cls, [i \in 1..Len(at) |-> <<at[i], ValueHash(at[i], Heap[a][at[i]])>>]>>

(***************************************************************************)
(* A Python dict keyed by nodes: a function from the key objects to the    *)
(* values.  A lookup finds the key object that has the hash of the wanted  *)
(* node and is equal to it; a store under an equal key keeps the key       *)
(* object and replaces the value.                                          *)
(***************************************************************************)
\* a lookup by the identity of the key object
DictFindByIdentity(d, t) == {k \in DOMAIN d : k = t}

DictFind(d, t) == {k \in DOMAIN d : Hash(k) = Hash(t) /\ Eq(k, t)}
DictHas(d, t) == DictFind(d, t) # {}
DictGet(d, t) == d[CHOOSE k \in DictFind(d, t) : TRUE]
DictSet(d, t, v) ==
    IF DictHas(d, t)
    THEN [d EXCEPT ![CHOOSE k \in DictFind(d, t) : TRUE] = v]
    ELSE d @@ (t :> v)
EmptyDict == <<>>

(***************************************************************************)
(* The backend.  A Backend Type Handle is a fresh object for every call of *)
(* a constructor.  Its identity <<t, k>> tells that it is the k-th handle  *)
(* made on behalf of the node object t, so that two calls never make the   *)
(* same handle; bt maps the handles made so far to what the backend knows  *)
(* of them.  returned holds the (node, handle) pairs that                  *)
(* _get_cached_btype has returned.                                         *)
(***************************************************************************)
NoHandle == <<"", 0>>
MadeFor(BType) == BType[1]

Return(w, v) == [w |-> w, ok |-> TRUE, val |-> v, exc |-> "", args |-> <<>>]
Raise(w, exc) == [w |-> w, ok |-> FALSE, val |-> NoHandle, exc |-> exc, args |-> <<>>]
Args(w, args) == [w |-> w, ok |-> TRUE, val |-> NoHandle, exc |-> "", args |-> args]

BackendNew(w, t, rec) ==
    LET BType == <<t, Cardinality({h \in DOMAIN w.bt : MadeFor(h) = t}) + 1>>
    IN Return([w EXCEPT !.bt = @ @@ (BType :> rec)], BType)

new_void_type == [kind |-> "void"]
new_primitive_type(name) == [kind |-> "primitive", name |-> name]
new_function_type(args, result, ellipsis) ==
    [kind |-> "function", args |-> args, result |-> result, ellipsis |-> ellipsis]
new_pointer_type(BItem) == [kind |-> "pointer", item |-> BItem]
new_array_type(BItem, length) == [kind |-> "array", item |-> BItem, length |-> length]
new_struct_type(name) ==
    [kind |-> "struct", name |-> name, completed |-> 0, fields |-> <<>>]
new_union_type(name) ==
    [kind |-> "union", name |-> name, completed |-> 0, fields |-> <<>>]
new_enum_type(name, enumerators, enumvalues) ==
    [kind |-> "enum", name |-> name, enumerators |-> enumerators,
     enumvalues |-> enumvalues]

complete_struct_or_union(w, BType, fldtypes) ==
    [w EXCEPT !.bt[BType].completed = @ + 1, !.bt[BType].fields = fldtypes]

(***************************************************************************)
(* model.py: new_backend_type, get_btype, prepare_backend_type and         *)
(* finish_backend_type of the node classes; api.py: _get_cached_btype.     *)
(* Every operator takes the world w (the backend-type cache and the        *)
(* backend's handles) and returns the world it leaves, with the value it   *)
(* returns or the exception it raises.  depth counts the nested calls of   *)
(* _get_cached_btype, which Python cuts off at its recursion limit.        *)
(***************************************************************************)
IsStructOrUnion(t) == Heap[t].cls \in {"StructType", "UnionType"}

\* the integer kind a primitive name is a signed or unsigned variant of
BaseKind(name) ==
    CASE name \in {"long long", "unsigned long long"} -> "long long"
      [] name \in {"long", "unsigned long"} -> "long"
      [] name \in {"int", "unsigned int"} -> "int"
      [] name \in {"short", "unsigned short"} -> "short"
      [] name \in {"char", "signed char", "unsigned char"} -> "char"

\* a primitive whose handle is made for its integer kind
PrimitiveNewBackendTypeOfKind(w, t) ==
    BackendNew(w, t, new_primitive_type(BaseKind(Heap[t].name)))

\* PrimitiveType.new_backend_type: ffi._backend.new_primitive_type(self.name)
PrimitiveNewBackendType(w, t) ==
    BackendNew(w, t, new_primitive_type(Heap[t].name))

NewBackendType(w, t, args) ==
    LET n == Heap[t]
    IN CASE n.cls = "VoidType" -> BackendNew(w, t, new_void_type)
         [] n.cls = "PrimitiveType" -> PrimitiveNewBackendType(w, t)
         [] n.cls = "FunctionType" ->
              BackendNew(w, t, new_function_type(Tail(args), Head(args), n.ellipsis))
         [] n.cls = "PointerType" -> BackendNew(w, t, new_pointer_type(args[1]))
         [] n.cls = "ArrayType" -> BackendNew(w, t, new_array_type(args[1], n.length))
         [] n.cls = "EnumType" ->
              BackendNew(w, t, new_enum_type(n.name, n.enumerators, n.enumvalues))

GetBType(w, t) ==
    IF Heap[t].cls = "StructType"
    THEN BackendNew(w, t, new_struct_type(Heap[t].name))
    ELSE BackendNew(w, t, new_union_type(Heap[t].name))

RECURSIVE GetCachedBType(_, _, _)
RECURSIVE ResolveEach(_, _, _, _)

\* args.append(ffi._get_cached_btype(tp)) for tp in tps; the first
\* exception ends the loop
ResolveEach(w, tps, args, depth) ==
    IF tps = <<>> THEN Args(w, args)
    ELSE TheValue({IF ~r.ok THEN r
                   ELSE ResolveEach(r.w, Tail(tps), Append(args, r.val), depth) :
                   r \in {GetCachedBType(w, Head(tps), depth)}})

\* for tp in self.fldtypes: args.append(ffi._get_cached_btype(tp)),
\* which raises a TypeError when fldtypes is None
ResolveFields(w, t, BType, depth) ==
    IF Heap[t].fldtypes = None
    THEN Raise(w, "TypeError")
    ELSE ResolveEach(w, TheValue(Heap[t].fldtypes), <<BType>>, depth)

\* a prepare_backend_type that caches the handle only once it is complete
StructPrepareWithoutInsert(w, t, depth) ==
    TheValue({ResolveFields(b.w, t, b.val, depth) : b \in {GetBType(w, t)}})

StructPrepareBackendType(w, t, depth) ==
    TheValue({ResolveFields([b.w EXCEPT !.cached = DictSet(@, t, b.val)], t, b.val, depth) :
              b \in {GetBType(w, t)}})

PrepareBackendType(w, t, depth) ==
    LET n == Heap[t]
    IN CASE n.cls = "FunctionType" -> ResolveEach(w, <<n.result>> \o n.args, <<>>, depth)
         [] n.cls = "PointerType" -> ResolveEach(w, <<n.totype>>, <<>>, depth)
         [] n.cls = "ArrayType" -> ResolveEach(w, <<n.item>>, <<>>, depth)
         [] IsStructOrUnion(t) -> StructPrepareBackendType(w, t, depth)
         [] OTHER -> Args(w, <<>>)

\* a finish_backend_type that does not look into the cache first
FinishWithoutLookup(w, t, args) == NewBackendType(w, t, args)

BaseFinishBackendType(w, t, args) ==
    IF DictHas(w.cached, t)
    THEN Return(w, DictGet(w.cached, t))
    ELSE NewBackendType(w, t, args)

\* a finish_backend_type that completes, and returns, a handle of its own
StructFinishWithNewHandle(w, t, args) ==
    TheValue({Return(complete_struct_or_union(b.w, b.val, Tail(args)), b.val) :
              b \in {GetBType(w, t)}})

StructFinishBackendType(w, t, args) ==
    Return(complete_struct_or_union(w, Head(args), Tail(args)), Head(args))

FinishBackendType(w, t, args) ==
    IF IsStructOrUnion(t)
    THEN StructFinishBackendType(w, t, args)
    ELSE BaseFinishBackendType(w, t, args)

Returned(w, t, BType) ==
    Return([w EXCEPT !.returned = @ \cup {<<t, BType>>}], BType)

\* BType = type.finish_backend_type(self, *args);
\* self._cached_btypes[type] = BType; return BType
FinishAndCache(w, t, args) ==
    TheValue({Returned([f.w EXCEPT !.cached = DictSet(@, t, f.val)], t, f.val) :
              f \in {FinishBackendType(w, t, args)}})

GetCachedBType(w, t, depth) ==
    IF depth > RecursionLimit THEN Raise(w, "RuntimeError")
    ELSE IF DictHas(w.cached, t) THEN Returned(w, t, DictGet(w.cached, t))
    ELSE TheValue({IF ~p.ok THEN p ELSE FinishAndCache(p.w, t, p.args) :
                   p \in {PrepareBackendType(w, t, depth + 1)}})

(***************************************************************************)
(* The backend's platform: the sizes of the canonical integer kinds and of *)
(* a pointer, and the answer of nonstandard_integer_types(), a map from    *)
(* type names to sizes, with bit 0x1000 set for an unsigned type.          *)
(***************************************************************************)
UnsignedFlag == 4096
LP64Sizes == [c \in {"long long", "long"} |-> 8] @@ ("int" :> 4) @@ ("short" :> 2) @@ ("char" :> 1)
ILP32Sizes == ("long long" :> 8) @@ [c \in {"long", "int"} |-> 4] @@ ("short" :> 2) @@ ("char" :> 1)
FakeSizes == [c \in {"long long", "long", "int", "short", "char"} |-> 1]

RECURSIVE SizeofType(_, _, _)
RECURSIVE SumSizes(_, _, _)
SumSizes(pf, bt, hs) ==
    IF hs = <<>> THEN 0 ELSE SizeofType(pf, bt, Head(hs)) + SumSizes(pf, bt, Tail(hs))

SizeofType(pf, bt, BType) ==
    LET b == bt[BType]
    IN CASE b.kind = "primitive" -> pf.sizes[BaseKind(b.name)]
         [] b.kind \in {"pointer", "function", "array"} -> pf.sizes["long"]
         [] b.kind \in {"struct", "union"} -> SumSizes(pf, bt, b.fields)
         [] b.kind = "enum" -> pf.sizes["int"]
         [] b.kind = "void" -> 1

\* the backend's alignof: the largest alignment among the parts
RECURSIVE AlignofType(_, _, _)
RECURSIVE MaxAlign(_, _, _)
MaxAlign(pf, bt, hs) ==
    IF hs = <<>> THEN 1
    ELSE TheValue({IF a > m THEN a ELSE m :
                   a \in {AlignofType(pf, bt, Head(hs))}, m \in {MaxAlign(pf, bt, Tail(hs))}})

AlignofType(pf, bt, BType) ==
    LET b == bt[BType]
    IN IF b.kind \in {"struct", "union"} THEN MaxAlign(pf, bt, b.fields)
       ELSE SizeofType(pf, bt, BType)

(***************************************************************************)
(* The parser.  A C source is a set of declarations <<kind, name, type>>;  *)
(* parse(csource) adds what they declare to the declaration table, or      *)
(* raises and adds nothing when one of them is malformed.  parse_type      *)
(* maps a type-name string to a node.                                      *)
(***************************************************************************)
SymbolsSource == {<<"function", "printf", "int (const char *, ...)">>,
                  <<"variable", "v", "int">>}
StructsSource == {<<"struct", "Node", "{ struct Node *next; }">>,
                  <<"struct", "A", "{ struct B *b; }">>,
                  <<"struct", "B", "{ struct A *a; int n : 3; }">>,
                  <<"struct", "Opaque", "">>,
                  <<"struct", "Outer", "{ int x; struct Opaque o; }">>}
ErrnoSource == {<<"variable", "errno", "int">>}
GarbageSource == {<<"variable", "w", "int">>, <<"garbage", "", "">>}

\* the primitive a spelling of an integer type names
PrimitiveOf(text) ==
    CASE text \in {"long long", "signed long long"} -> "long long"
      [] text \in {"long", "signed long", "signed long int"} -> "long"
      [] text \in {"int", "signed int"} -> "int"
      [] text \in {"short", "signed short"} -> "short"
      [] text \in {"char"} -> "char"
      [] text \in {"signed char", "unsigned long long", "unsigned long",
                   "unsigned int", "unsigned short", "unsigned char"} -> text

Spellings == {"long long", "signed long long", "long", "signed long",
              "signed long int", "int", "signed int", "short", "signed short",
              "char", "signed char", "unsigned long long", "unsigned long",
              "unsigned int", "unsigned short", "unsigned char"}

Declared(d) ==
    CASE d[1] = "typedef" -> PrimitiveOf(d[3])
      [] d[1] = "function" -> "printf/cdef"
      [] d[1] = "variable" -> "int/cdef"
      [] d[1] = "struct" -> d[2]

\* a parse that keeps what it declared before it failed
ParserParseKeepingPart(decls, csource) ==
    [ok |-> ~(\E d \in csource : d[1] = "garbage"),
     decls |-> [k \in {<<d[1], d[2]>> : d \in {e \in csource : e[1] # "garbage"}} |->
                   Declared(CHOOSE d \in csource : <<d[1], d[2]>> = k)] @@ decls]

ParserParse(decls, csource) ==
    IF \E d \in csource : d[1] = "garbage"
    THEN [ok |-> FALSE, decls |-> decls]
    ELSE [ok |-> TRUE,
          decls |-> [k \in {<<d[1], d[2]>> : d \in csource} |->
                        Declared(CHOOSE d \in csource : <<d[1], d[2]>> = k)] @@ decls]

ParseOk(t) == [ok |-> TRUE, node |-> t]
ParseError == [ok |-> FALSE, node |-> "void"]
FromTable(decls, key) == IF key \in DOMAIN decls THEN ParseOk(decls[key]) ELSE ParseError

ParseType(decls, cdecl, force_pointer) ==
    IF force_pointer
    THEN CASE cdecl = "int" -> ParseOk("int*/new")
           [] cdecl = "struct Node" ->
                IF <<"struct", "Node">> \in DOMAIN decls THEN ParseOk("Node*/new") ELSE ParseError
    ELSE CASE cdecl \in Spellings -> ParseOk(PrimitiveOf(cdecl))
           [] cdecl = "struct Node" -> FromTable(decls, <<"struct", "Node">>)
           [] cdecl = "struct A" -> FromTable(decls, <<"struct", "A">>)
           [] cdecl = "struct Opaque" -> FromTable(decls, <<"struct", "Opaque">>)
           [] cdecl = "struct Outer" -> FromTable(decls, <<"struct", "Outer">>)
           [] cdecl = "struct Node *" ->
                IF <<"struct", "Node">> \in DOMAIN decls THEN ParseOk("Node*/parse") ELSE ParseError
           [] cdecl = "int (int)" -> ParseOk("int (int)")
           [] OTHER -> FromTable(decls, <<"typedef", cdecl>>)

(***************************************************************************)
(* api.py, class FFI.  The world w of these operators holds, besides the   *)
(* backend-type cache and the backend's handles, the parsed-type cache,    *)
(* the new-instance-type cache, the declaration table, the platform and    *)
(* the calls the current operation has made to the backend.                *)
(***************************************************************************)
Call(w, fn, BType, name) ==
    [w EXCEPT !.calls = Append(@, [fn |-> fn, btype |-> BType, name |-> name])]

\* type = self._parser.parse_type(cdecl, force_pointer);
\* btype = type.get_backend_type(self)
ParseAndResolve(w, cdecl, force_pointer) ==
    TheValue({IF ~p.ok THEN Raise(w, "CDefError") ELSE GetCachedBType(w, p.node, 1) :
              p \in {ParseType(w.decls, cdecl, force_pointer)}})

\* a typeof that looks the name up in the new-instance-type cache
TypeofThroughNewTypes(w, cdecl) ==
    IF cdecl \in DOMAIN w.newt
    THEN Return(w, w.newt[cdecl])
    ELSE TheValue({IF ~r.ok THEN r
                   ELSE Return([r.w EXCEPT !.parsed = @ @@ (cdecl :> r.val)], r.val) :
                   r \in {ParseAndResolve(w, cdecl, FALSE)}})

\* a typeof that uses no cache at all
TypeofWithoutCaches(w, cdecl) ==
    TheValue({IF ~r.ok THEN r
              ELSE Return([r.w EXCEPT !.parsed = (cdecl :> r.val) @@ @], r.val) :
              r \in {ParseAndResolve([w EXCEPT !.cached = EmptyDict], cdecl, FALSE)}})

Typeof(w, cdecl) ==
    IF cdecl \in DOMAIN w.parsed
    THEN Return(w, w.parsed[cdecl])
    ELSE TheValue({IF ~r.ok THEN r
                   ELSE Return([r.w EXCEPT !.parsed = @ @@ (cdecl :> r.val)], r.val) :
                   r \in {ParseAndResolve(w, cdecl, FALSE)}})

Sizeof(w, cdecl) ==
    TheValue({IF ~r.ok THEN r
              ELSE Return(Call(r.w, "sizeof_type", r.val, ""),
                          SizeofType(r.w.platform, r.w.bt, r.val)) :
              r \in {Typeof(w, cdecl)}})

\* a callback that resolves the signature before it looks at the callable
CallbackResolvingFirst(w, cdecl, python_callable) ==
    TheValue({IF ~r.ok THEN r
              ELSE IF ~python_callable THEN Raise(r.w, "TypeError")
              ELSE Return(Call(r.w, "callback", r.val, ""), r.val) :
              r \in {Typeof(w, cdecl)}})

Callback(w, cdecl, python_callable) ==
    IF ~python_callable THEN Raise(w, "TypeError")
    ELSE TheValue({IF ~r.ok THEN r
                   ELSE Return(Call(r.w, "callback", r.val, ""), r.val) :
                   r \in {Typeof(w, cdecl)}})

\* a new that looks the name up in the parsed-type cache
NewTypeThroughParsedTypes(w, cdecl) ==
    IF cdecl \in DOMAIN w.parsed
    THEN Return(w, w.parsed[cdecl])
    ELSE TheValue({IF ~g.ok THEN g
                   ELSE Return([g.w EXCEPT !.newt = @ @@ (cdecl :> g.val)], g.val) :
                   g \in {ParseAndResolve(w, cdecl, TRUE)}})

NewType(w, cdecl) ==
    IF cdecl \in DOMAIN w.newt
    THEN Return(w, w.newt[cdecl])
    ELSE TheValue({IF ~g.ok THEN g
                   ELSE Return([g.w EXCEPT !.newt = @ @@ (cdecl :> g.val)], g.val) :
                   g \in {ParseAndResolve(w, cdecl, TRUE)}})

New(w, cdecl) ==
    TheValue({IF ~r.ok THEN r ELSE Return(Call(r.w, "newp", r.val, ""), r.val) :
              r \in {NewType(w, cdecl)}})

\* self._parser.parse(csource): the table is the parser's, and is what the
\* parser has left, whether parse returned or raised
Cdef(w, csource) ==
    TheValue({IF ~p.ok THEN Raise([w EXCEPT !.decls = p.decls], "CDefError")
              ELSE Return([w EXCEPT !.decls = p.decls], 0) :
              p \in {ParserParse(w.decls, csource)}})

\* FFI.__init__: by_size[self.sizeof(cname)] = cname for the canonical
\* kinds in order, then one typedef per nonstandard integer type
RECURSIVE ProbeSizes(_, _, _)
ProbeSizes(w, cnames, by_size) ==
    IF cnames = <<>> THEN [w |-> w, ok |-> TRUE, by_size |-> by_size]
    ELSE TheValue({IF ~r.ok THEN [w |-> r.w, ok |-> FALSE, by_size |-> by_size]
                   ELSE ProbeSizes(r.w, Tail(cnames), (r.val :> Head(cnames)) @@ by_size) :
                   r \in {Sizeof([w EXCEPT !.calls = <<>>], Head(cnames))}})

IsUnsigned(size) == (size \div UnsignedFlag) % 2 = 1
ClearUnsigned(size) == IF IsUnsigned(size) THEN size - UnsignedFlag ELSE size
\* a typedef that is always of the signed kind
EquivSigned(size) == "signed "

Equiv(size) == IF IsUnsigned(size) THEN "unsigned " ELSE "signed "

TypedefLines(by_size, ns) ==
    {<<"typedef", name, Equiv(ns[name]) \o by_size[ClearUnsigned(ns[name])]>> :
        name \in DOMAIN ns}

(***************************************************************************)
(* api.py, _make_ffi_library and class FFILibrary.  A proxy is a record    *)
(* of its libname, the path of its library and its function_cache; the     *)
(* proxies made so far are the sequence libs, the default proxy ffi.C      *)
(* first.  The bound callable an invocation of load_function returns       *)
(* is a fresh object <<p, name, k>>, the k-th made for proxy p and name;   *)
(* bound maps the callables made so far to their function type handles.    *)
(* mem is the memory of the libraries' variables.  Library names with a   *)
(* '/' are not among the modelled inputs.                                 *)
(***************************************************************************)
FindLibrary(name) ==
    CASE name = "c" -> Some("libc.so")
      [] name = "m" -> Some("libm.so")
      [] OTHER -> None

Paths == {"libc.so", "libm.so"}
VarNames == {"v", "errno"}

MakeFFILibrary(w, libname) ==
    LET name == IF libname = None THEN "c" ELSE TheValue(libname)
        path == FindLibrary(name)
    IN IF path = None THEN Raise(w, "OSError")
       ELSE LET w1 == Call(w, "load_library", NoHandle, TheValue(path))
                lib == [libname |-> libname, path |-> TheValue(path),
                        function_cache |-> <<>>]
            IN Return([w1 EXCEPT !.libs = Append(@, lib)], Len(w.libs) + 1)

\* FFILibrary.__getattribute__; kind tells which branch answered
Got(r, kind) == [r |-> r, kind |-> kind]

\* a binding that is not stored in function_cache
LoadFunctionUncached(w, p, BType, name) ==
    LET value == <<p, name, Cardinality({f \in DOMAIN w.bound :
                                           f[1] = p /\ f[2] = name}) + 1>>
    IN Return([Call(w, "load_function", BType, name) EXCEPT
                 !.bound = @ @@ (value :> BType)], value)

\* value = backendlib.load_function(BType, name); function_cache[name] = value
LoadFunction(w, p, BType, name) ==
    LET value == <<p, name, Cardinality({f \in DOMAIN w.bound :
                                           f[1] = p /\ f[2] = name}) + 1>>
    IN Return([Call(w, "load_function", BType, name) EXCEPT
                 !.bound = @ @@ (value :> BType),
                 !.libs[p].function_cache = @ @@ (name :> value)], value)

\* the declaration table as it was when ffi.C was made
DeclarationsAtConstruction(w) ==
    [k \in {k \in DOMAIN w.decls : k[1] = "typedef"} |-> w.decls[k]]

\* ffi._parser._declarations
Declarations(w) == w.decls

\* a special case of errno on every proxy
IsErrnoAnyProxy(lib, name) == name = "errno"

\* libname is None and name == 'errno'
IsErrno(lib, name) == lib.libname = None /\ name = "errno"

\* a read whose value is stored in function_cache
ReadVariableCached(w, p, BType, name) ==
    LET value == w.mem[w.libs[p].path][name]
    IN Return([Call(w, "read_variable", BType, name) EXCEPT
                 !.libs[p].function_cache = @ @@ (name :> value)], value)

\* return backendlib.read_variable(BType, name)
ReadVariable(w, p, BType, name) ==
    Return(Call(w, "read_variable", BType, name), w.mem[w.libs[p].path][name])

\* an unknown name that is answered with None
UnknownSymbolIgnored(w, name) == Got(Return(w, 0), "unknown")

\* raise AttributeError(name)
UnknownSymbol(w, name) == Got(Raise(w, "AttributeError"), "unknown")

GetAttribute(w, p, name) ==
    LET lib == w.libs[p]
    IN IF IsErrno(lib, name)
       THEN Got(Return(Call(w, "get_errno", NoHandle, ""), w.errno), "errno")
       ELSE IF name \in DOMAIN lib.function_cache
       THEN Got(Return(w, lib.function_cache[name]), "function")
       ELSE IF <<"function", name>> \in DOMAIN Declarations(w)
       THEN TheValue({IF ~g.ok THEN Got(g, "function")
                      ELSE Got(LoadFunction(g.w, p, g.val, name), "function") :
                      g \in {GetCachedBType(w, Declarations(w)[<<"function", name>>], 1)}})
       ELSE IF <<"variable", name>> \in DOMAIN Declarations(w)
       THEN TheValue({IF ~g.ok THEN Got(g, "variable")
                      ELSE Got(ReadVariable(g.w, p, g.val, name), "variable") :
                      g \in {GetCachedBType(w, Declarations(w)[<<"variable", name>>], 1)}})
       ELSE UnknownSymbol(w, name)

\* FFILibrary.__setattr__
SetAttr(w, p, name, value) ==
    LET lib == w.libs[p]
    IN IF IsErrno(lib, name)
       THEN Got(Return([Call(w, "set_errno", NoHandle, "") EXCEPT !.errno = value], 0), "errno")
       ELSE IF <<"variable", name>> \in DOMAIN Declarations(w)
       THEN TheValue({IF ~g.ok THEN Got(g, "variable")
                      ELSE Got(Return([Call(g.w, "write_variable", g.val, name) EXCEPT
                                         !.mem[lib.path][name] = value], 0), "variable") :
                      g \in {GetCachedBType(w, Declarations(w)[<<"variable", name>>], 1)}})
       ELSE UnknownSymbol(w, name)

EmptyWorld(pf) ==
    [cached |-> EmptyDict, parsed |-> <<>>, newt |-> <<>>, decls |-> <<>>,
     bt |-> <<>>, returned |-> {}, platform |-> pf, calls |-> <<>>,
     libs |-> <<>>, bound |-> <<>>, errno |-> 0,
     mem |-> [path \in Paths |-> [name \in VarNames |-> 0]]]

FFIInit(pf) ==
    TheValue({IF ~s.ok THEN Raise(s.w, "Error")
              ELSE IF \E name \in DOMAIN pf.ns :
                         ClearUnsigned(pf.ns[name]) \notin DOMAIN s.by_size
                   THEN Raise(s.w, "KeyError")
                   ELSE Cdef([s.w EXCEPT !.calls = <<>>], TypedefLines(s.by_size, pf.ns)) :
              s \in {ProbeSizes(MakeFFILibrary(EmptyWorld(pf), None).w, CNames, <<>>)}})

(***************************************************************************)
(* The state: the FFI object (its caches and, in its parser, the           *)
(* declaration table), the backend (platform, handles, bound callables,    *)
(* variable memory, errno), the library proxies, and for the record what   *)
(* typeof and the reads of functions have returned so far, which reads of  *)
(* a proxy were refused as unknown, and what the last operation did.       *)
(* threads holds, for each thread that calls typeof, sizeof or alignof     *)
(* concurrently, the call it is in, the line it has reached and the handle *)
(* and the number it has got.                                              *)
(***************************************************************************)
VARIABLES cached_btypes, parsed_types, new_types, declarations,
          platform, btypes, bound, mem, errno, libs,
          returned, typeof_returned, function_returned, refused,
          threads, constructed, last

vars == <<cached_btypes, parsed_types, new_types, declarations,
          platform, btypes, bound, mem, errno, libs,
          returned, typeof_returned, function_returned, refused,
          threads, constructed, last>>

World ==
    [cached |-> cached_btypes, parsed |-> parsed_types, newt |-> new_types,
     decls |-> declarations, bt |-> btypes, returned |-> returned,
     platform |-> platform, calls |-> <<>>, libs |-> libs, bound |-> bound,
     errno |-> errno, mem |-> mem]

Commit(w) ==
    /\ cached_btypes' = w.cached
    /\ parsed_types' = w.parsed
    /\ new_types' = w.newt
    /\ declarations' = w.decls
    /\ btypes' = w.bt
    /\ returned' = w.returned
    /\ libs' = w.libs
    /\ bound' = w.bound
    /\ errno' = w.errno
    /\ mem' = w.mem
    /\ platform' = platform

Holds(w) ==
    /\ cached_btypes = w.cached
    /\ parsed_types = w.parsed
    /\ new_types = w.newt
    /\ declarations = w.decls
    /\ btypes = w.bt
    /\ returned = w.returned
    /\ libs = w.libs
    /\ bound = w.bound
    /\ errno = w.errno
    /\ mem = w.mem
    /\ platform = w.platform

\* what an operation did: its arguments, whether it returned or raised,
\* the number, handle or callable it returned, the calls it made to the
\* backend and the number of handles the backend made for it
Threads == {1, 2}
Idle == [pc |-> "idle", op |-> "", name |-> "", btype |-> NoHandle, ret |-> 0]

NoCallable == <<0, "", 0>>
NoResult ==
    [op |-> "", lib |-> 0, name |-> "", value |-> 0, ok |-> TRUE, exc |-> "",
     ret |-> 0, btype |-> NoHandle, fn |-> NoCallable, calls |-> <<>>, newh |-> 0,
     other |-> "", eq |-> FALSE, samehash |-> FALSE]

Result(op, lib, name, value, r) ==
    [NoResult EXCEPT !.op = op, !.lib = lib, !.name = name, !.value = value,
                     !.ok = r.ok, !.exc = r.exc, !.calls = r.w.calls,
                     !.newh = Cardinality(DOMAIN r.w.bt) - Cardinality(DOMAIN btypes)]

(***************************************************************************)
(* The inputs of the operations.                                           *)
(***************************************************************************)
TypeNames == {"int", "struct Node", "struct Node *", "struct A", "struct Outer"}
NewNames == {"int", "struct Node"}
SymbolNames == {"printf", "v", "errno", "nosuch"}
LibNames == {"m", "nolib"}
Values == 0..MaxValue
Source(name) ==
    CASE name = "symbols" -> SymbolsSource
      [] name = "structs" -> StructsSource
      [] name = "errno" -> ErrnoSource
      [] name = "garbage" -> GarbageSource
SourceNames == {"symbols", "structs", "errno", "garbage"}

NSNames == {"size_t", "int16_t"}
NSSizes == {1, 2, 4, 8, UnsignedFlag + 1, UnsignedFlag + 2, UnsignedFlag + 4, UnsignedFlag + 8}
LP64 == [sizes |-> LP64Sizes, ns |-> ("size_t" :> UnsignedFlag + 8)]
Platforms == {LP64}
BootPlatforms ==
    {[sizes |-> s, ns |-> f] : s \in {LP64Sizes, ILP32Sizes, FakeSizes},
                               f \in UNION {[D -> NSSizes] : D \in SUBSET NSNames}}

(***************************************************************************)
(* Init is the state that FFI(backend) leaves on one of the platforms.     *)
(***************************************************************************)
Init ==
    /\ platform \in Platforms
    /\ FFIInit(platform).ok
    /\ Holds([FFIInit(platform).w EXCEPT !.calls = <<>>])
    /\ typeof_returned = {}
    /\ function_returned = {}
    /\ refused = {}
    /\ threads = [t \in Threads |-> Idle]
    /\ constructed = "yes"
    /\ last = NoResult

DoCdef(src) ==
    /\ constructed = "yes"
    /\ \E r \in {Cdef(World, Source(src))} :
          /\ Commit(r.w)
          /\ last' = Result("cdef", 0, src, 0, r)
    /\ UNCHANGED <<typeof_returned, function_returned, refused, threads, constructed>>

DoTypeof(cdecl) ==
    /\ constructed = "yes"
    /\ \E r \in {Typeof(World, cdecl)} :
          /\ Commit(r.w)
          /\ last' = [Result("typeof", 0, cdecl, 0, r) EXCEPT !.btype = r.val]
          /\ typeof_returned' =
               IF r.ok THEN typeof_returned \cup {<<cdecl, r.val>>} ELSE typeof_returned
    /\ UNCHANGED <<function_returned, refused, threads, constructed>>

DoSizeof(cdecl) ==
    /\ constructed = "yes"
    /\ \E r \in {Sizeof(World, cdecl)} :
          /\ Commit(r.w)
          /\ last' = [Result("sizeof", 0, cdecl, 0, r) EXCEPT !.ret = IF r.ok THEN r.val ELSE 0]
    /\ UNCHANGED <<typeof_returned, function_returned, refused, threads, constructed>>

DoNew(cdecl) ==
    /\ constructed = "yes"
    /\ \E r \in {New(World, cdecl)} :
          /\ Commit(r.w)
          /\ last' = [Result("new", 0, cdecl, 0, r) EXCEPT !.btype = r.val]
    /\ UNCHANGED <<typeof_returned, function_returned, refused, threads, constructed>>

\* callback(cdecl, python_callable); value tells whether python_callable
\* is callable
DoCallback(cdecl, python_callable) ==
    /\ constructed = "yes"
    /\ \E r \in {Callback(World, cdecl, python_callable)} :
          /\ Commit(r.w)
          /\ last' = [Result("callback", 0, cdecl, IF python_callable THEN 1 ELSE 0, r)
                        EXCEPT !.btype = r.val]
    /\ UNCHANGED <<typeof_returned, function_returned, refused, threads, constructed>>

DoLoad(name) ==
    /\ constructed = "yes"
    /\ Len(libs) <= MaxLoads
    /\ \E r \in {MakeFFILibrary(World, Some(name))} :
          /\ Commit(r.w)
          /\ last' = [Result("load", 0, name, 0, r) EXCEPT !.ret = IF r.ok THEN r.val ELSE 0]
    /\ UNCHANGED <<typeof_returned, function_returned, refused, threads, constructed>>

Read(p, name) ==
    /\ constructed = "yes"
    /\ \E g \in {GetAttribute(World, p, name)} :
          /\ Commit(g.r.w)
          /\ last' = [Result("getattr", p, name, 0, g.r) EXCEPT
                        !.ret = IF g.r.ok /\ g.kind # "function" THEN g.r.val ELSE 0,
                        !.fn = IF g.r.ok /\ g.kind = "function" THEN g.r.val ELSE NoCallable]
          /\ function_returned' =
               IF g.r.ok /\ g.kind = "function"
               THEN function_returned \cup {<<p, name, g.r.val>>}
               ELSE function_returned
    /\ UNCHANGED <<typeof_returned, threads, constructed>>

DoGetAttribute(p, name) ==
    /\ Read(p, name)
    /\ UNCHANGED refused

\* a read that is put on record when it is refused
DoGetAttributeRecorded(p, name) ==
    /\ Read(p, name)
    /\ refused' = IF last'.exc = "AttributeError" THEN refused \cup {<<p, name>>} ELSE refused

DoSetAttr(p, name, value) ==
    /\ constructed = "yes"
    /\ \E g \in {SetAttr(World, p, name, value)} :
          /\ Commit(g.r.w)
          /\ last' = Result("setattr", p, name, value, g.r)
    /\ UNCHANGED <<typeof_returned, function_returned, refused, threads, constructed>>

\* the library's own code changes one of its variables
ExternalChange(path, name, value) ==
    /\ constructed = "yes"
    /\ mem[path][name] # value
    /\ mem' = [mem EXCEPT ![path][name] = value]
    /\ last' = [NoResult EXCEPT !.op = "external", !.name = name, !.value = value]
    /\ UNCHANGED <<cached_btypes, parsed_types, new_types, declarations,
                   platform, btypes, bound, errno, libs,
                   returned, typeof_returned, function_returned, refused, threads, constructed>>

(***************************************************************************)
(* Threads that call typeof, sizeof and alignof on names that are in the   *)
(* parsed-type cache.  A call of typeof is one step, the read of           *)
(* self._parsed_types; sizeof and alignof take that step and then call the *)
(* backend with the handle they have got.  Names are put into the cache,   *)
(* and structs declared, while no thread is in a call.                     *)
(***************************************************************************)
ThreadOps == {"typeof", "sizeof", "alignof"}
ThreadNames == {"int", "struct Node", "struct Node *"}

Quiescent == \A t \in Threads : threads[t].pc = "idle"

ThreadUnchanged ==
    UNCHANGED <<typeof_returned, function_returned, refused, constructed, last>>

ThreadCall(t, op, cdecl) ==
    /\ constructed = "yes"
    /\ threads[t].pc = "idle"
    /\ cdecl \in DOMAIN parsed_types
    /\ threads' = [threads EXCEPT ![t] = [Idle EXCEPT !.pc = "typeof", !.op = op, !.name = cdecl]]
    /\ Commit(World)
    /\ ThreadUnchanged

\* BType = self.typeof(cdecl)
ThreadTypeof(t) ==
    /\ threads[t].pc = "typeof"
    /\ \E r \in {Typeof(World, threads[t].name)} :
          /\ Commit(r.w)
          /\ threads' = [threads EXCEPT ![t].btype = r.val,
                                        ![t].pc = IF ~r.ok \/ threads[t].op = "typeof"
                                                  THEN "return" ELSE "backend"]
    /\ ThreadUnchanged

\* return self._backend.sizeof_type(BType), or alignof(BType)
ThreadBackend(t) ==
    /\ threads[t].pc = "backend"
    /\ threads' = [threads EXCEPT
                     ![t].pc = "return",
                     ![t].ret = IF threads[t].op = "sizeof"
                                THEN SizeofType(platform, btypes, threads[t].btype)
                                ELSE AlignofType(platform, btypes, threads[t].btype)]
    /\ Commit(World)
    /\ ThreadUnchanged

ThreadReturn(t) ==
    /\ threads[t].pc = "return"
    /\ threads' = [threads EXCEPT ![t] = Idle]
    /\ Commit(World)
    /\ ThreadUnchanged

NextThreads ==
    \/ Quiescent /\ DoCdef("structs")
    \/ \E cdecl \in ThreadNames : Quiescent /\ DoTypeof(cdecl)
    \/ \E cdecl \in NewNames : Quiescent /\ DoNew(cdecl)
    \/ \E t \in Threads, op \in ThreadOps, cdecl \in ThreadNames : ThreadCall(t, op, cdecl)
    \/ \E t \in Threads : ThreadTypeof(t)
    \/ \E t \in Threads : ThreadBackend(t)
    \/ \E t \in Threads : ThreadReturn(t)

\* the operations of the facade on types
NextFFI ==
    \/ \E src \in {"structs", "garbage"} : DoCdef(src)
    \/ \E cdecl \in TypeNames : DoTypeof(cdecl)
    \/ \E cdecl \in TypeNames : DoSizeof(cdecl)
    \/ \E cdecl \in NewNames : DoNew(cdecl)

\* the operations on libraries
NextLib ==
    \/ \E src \in {"symbols", "errno", "garbage"} : DoCdef(src)
    \/ \E name \in LibNames : DoLoad(name)
    \/ \E p \in 1..Len(libs), name \in SymbolNames : DoGetAttribute(p, name)
    \/ \E p \in 1..Len(libs), name \in SymbolNames, value \in Values : DoSetAttr(p, name, value)
    \/ \E path \in Paths, value \in Values : ExternalChange(path, "v", value)

\* callbacks, among declarations and typeof
SignatureNames == {"int (int)", "struct Node *", "int", "undeclared_t"}
NextCallback ==
    \/ \E src \in {"structs", "garbage"} : DoCdef(src)
    \/ \E cdecl \in SignatureNames : DoTypeof(cdecl)
    \/ \E cdecl \in SignatureNames, python_callable \in BOOLEAN :
          DoCallback(cdecl, python_callable)

\* reads through the proxies, among declarations and loads
NextLazy ==
    \/ \E src \in {"symbols", "garbage"} : DoCdef(src)
    \/ \E name \in LibNames : DoLoad(name)
    \/ \E p \in 1..Len(libs), name \in {"printf", "v", "nosuch"} : DoGetAttributeRecorded(p, name)

Next == NextFFI \/ NextLib \/ NextCallback \/ NextLazy \/ NextThreads

Spec == Init /\ [][Next]_vars
SpecFFI == Init /\ [][NextFFI]_vars
SpecLib == Init /\ [][NextLib]_vars
SpecCallback == Init /\ [][NextCallback]_vars
SpecLazy == Init /\ [][NextLazy]_vars
SpecThreads == Init /\ [][NextThreads]_vars

(***************************************************************************)
(* Construction on any of the platforms: from the state before FFI() is    *)
(* called, __init__ and then sizeof of the nonstandard integer types.      *)
(***************************************************************************)
InitBoot ==
    /\ platform \in BootPlatforms
    /\ Holds(EmptyWorld(platform))
    /\ typeof_returned = {}
    /\ function_returned = {}
    /\ refused = {}
    /\ threads = [t \in Threads |-> Idle]
    /\ constructed = "no"
    /\ last = NoResult

DoInit ==
    /\ constructed = "no"
    /\ \E r \in {FFIInit(platform)} :
          /\ IF r.ok THEN Commit([r.w EXCEPT !.calls = <<>>]) ELSE Commit(World)
          /\ constructed' = IF r.ok THEN "yes" ELSE "failed"
          /\ last' = [NoResult EXCEPT !.op = "init", !.ok = r.ok, !.exc = r.exc]
    /\ UNCHANGED <<typeof_returned, function_returned, refused, threads>>

\* construction with a backend that reports no nonstandard integer type,
\* FakeBackend of test_cdata.py among them, and typeof of the spellings of
\* the primitive types
NoNonstandard == {[sizes |-> s, ns |-> <<>>] : s \in {FakeSizes, LP64Sizes}}
PrimitiveSpellings == {"signed long int", "long", "signed long", "int",
                       "unsigned int", "signed char"}

InitPrimitive ==
    /\ platform \in NoNonstandard
    /\ Holds(EmptyWorld(platform))
    /\ typeof_returned = {}
    /\ function_returned = {}
    /\ refused = {}
    /\ threads = [t \in Threads |-> Idle]
    /\ constructed = "no"
    /\ last = NoResult

NextPrimitive ==
    \/ DoInit
    \/ \E cdecl \in PrimitiveSpellings : DoTypeof(cdecl)

SpecPrimitive == InitPrimitive /\ [][NextPrimitive]_vars

NextBoot ==
    \/ DoInit
    \/ \E cdecl \in NSNames : DoSizeof(cdecl)

SpecBoot == InitBoot /\ [][NextBoot]_vars

(***************************************************************************)
(* Comparison and hashing of two nodes, by __eq__ and __hash__, for any    *)
(* two nodes.                                                              *)
(***************************************************************************)
InitEq ==
    /\ platform \in Platforms
    /\ FFIInit(platform).ok
    /\ Holds([FFIInit(platform).w EXCEPT !.calls = <<>>])
    /\ typeof_returned = {}
    /\ function_returned = {}
    /\ refused = {}
    /\ threads = [t \in Threads |-> Idle]
    /\ constructed = "yes"
    /\ \E a \in NodeIds, b \in NodeIds :
          last = [NoResult EXCEPT !.name = a, !.other = b]

Compare ==
    /\ last.op = ""
    /\ last' = [last EXCEPT !.op = "eq", !.eq = Eq(last.name, last.other),
                            !.samehash = (Hash(last.name) = Hash(last.other))]
    /\ UNCHANGED <<cached_btypes, parsed_types, new_types, declarations,
                   platform, btypes, bound, mem, errno, libs,
                   returned, typeof_returned, function_returned, refused, threads, constructed>>

NextEq == Compare

SpecEq == InitEq /\ [][NextEq]_vars

(***************************************************************************)
(* What the properties speak of.                                           *)
(***************************************************************************)
\* a and b have the same variant and the same attributes, compared by
\* value: every attribute their constructors take
RECURSIVE SameNode(_, _)
SameNodes(xs, ys) ==
    /\ Len(xs) = Len(ys)
    /\ \A i \in 1..Len(xs) : SameNode(xs[i], ys[i])

SameNode(a, b) ==
    \/ a = b
    \/ /\ Heap[a].cls = Heap[b].cls
       /\ LET x == Heap[a]
              y == Heap[b]
          IN CASE x.cls = "VoidType" -> TRUE
               [] x.cls = "PrimitiveType" -> x.name = y.name
               [] x.cls = "FunctionType" ->
                    /\ x.name = y.name
                    /\ x.ellipsis = y.ellipsis
                    /\ SameNode(x.result, y.result)
                    /\ SameNodes(x.args, y.args)
               [] x.cls = "PointerType" -> SameNode(x.totype, y.totype)
               [] x.cls = "ArrayType" -> x.length = y.length /\ SameNode(x.item, y.item)
               [] x.cls \in {"StructType", "UnionType"} ->
                    /\ x.name = y.name
                    /\ x.fldnames = y.fldnames
                    /\ x.fldbitsize = y.fldbitsize
                    /\ (x.fldtypes = None) = (y.fldtypes = None)
                    /\ x.fldtypes # None =>
                         SameNodes(TheValue(x.fldtypes), TheValue(y.fldtypes))
               [] x.cls = "EnumType" ->
                    /\ x.name = y.name
                    /\ x.enumerators = y.enumerators
                    /\ x.enumvalues = y.enumvalues

IsAggregateHandle(BType) == btypes[BType].kind \in {"struct", "union"}

(***************************************************************************)
(* C1.  Two nodes built independently with the same variant and the same   *)
(* attributes resolve to the identical handle: of all the handles that     *)
(* _get_cached_btype has returned, in any order of operations, those       *)
(* returned for two such nodes are one and the same.                       *)
(***************************************************************************)
C1_StructuralIdentity ==
    \A x \in returned : \A y \in returned :
        SameNode(x[1], y[1]) => x[2] = y[2]

\* the pointer to struct Node built for the field and the one built by
\* parse_type have both been resolved
C1_Witness ==
    /\ last.op = "typeof"
    /\ last.name = "struct Node *"
    /\ <<"Node*/parse", last.btype>> \in returned
    /\ <<"Node*/field", last.btype>> \in returned

(***************************************************************************)
(* C2.  The backend makes at most one handle per distinct node, and every  *)
(* handle it has made is the one the cache holds for its node; typeof of   *)
(* a name whose node is already a cache key returns the cached handle and  *)
(* calls no backend constructor.                                           *)
(***************************************************************************)
MadeAtMostOnce ==
    \A g \in DOMAIN btypes : \A h \in DOMAIN btypes :
        Eq(MadeFor(g), MadeFor(h)) => g = h

MadeAreCached ==
    \A h \in DOMAIN btypes :
        DictHas(cached_btypes, MadeFor(h)) /\ DictGet(cached_btypes, MadeFor(h)) = h

CacheHit(cdecl) ==
    /\ last'.op = "typeof"
    /\ last'.name = cdecl
    /\ cdecl \notin DOMAIN parsed_types
    /\ ParseType(declarations, cdecl, FALSE).ok
    /\ DictHas(cached_btypes, ParseType(declarations, cdecl, FALSE).node)

C2_CreatedAtMostOnce ==
    /\ [](MadeAtMostOnce /\ MadeAreCached)
    /\ [][\A cdecl \in TypeNames :
            CacheHit(cdecl) =>
              /\ last'.btype = DictGet(cached_btypes, ParseType(declarations, cdecl, FALSE).node)
              /\ last'.newh = 0
              /\ btypes' = btypes]_vars

\* typeof("struct Node *") came first: the pointer was resolved again,
\* below struct Node, while its own resolution was in progress
C2_Witness ==
    /\ last.op = "typeof"
    /\ last.name = "struct Node *"
    /\ last.ok
    /\ last.newh = 2
    /\ "Node*/field" \in DOMAIN cached_btypes

(***************************************************************************)
(* C3.  Resolving a struct that refers to itself, or two structs that      *)
(* refer to each other, terminates (Python's recursion limit is never      *)
(* hit) with a completed handle, and a field that is a pointer to a struct *)
(* has a pointer handle whose pointee is the very handle of that struct.   *)
(***************************************************************************)
PointerFieldsClosed(BType) ==
    LET fldtypes == TheValue(Heap[MadeFor(BType)].fldtypes)
        fields == btypes[BType].fields
    IN /\ Len(fields) = Len(fldtypes)
       /\ \A i \in 1..Len(fldtypes) :
            Heap[fldtypes[i]].cls = "PointerType" =>
              /\ btypes[fields[i]].kind = "pointer"
              /\ DictHas(cached_btypes, Heap[fldtypes[i]].totype)
              /\ btypes[fields[i]].item = DictGet(cached_btypes, Heap[fldtypes[i]].totype)

C3_CycleSafe ==
    /\ last.exc # "RuntimeError"
    /\ (last.op = "typeof" /\ last.name \in {"struct Node", "struct A"}
          /\ <<"struct", "Node">> \in DOMAIN declarations) =>
         /\ last.ok
         /\ IsAggregateHandle(last.btype)
         /\ btypes[last.btype].completed = 1
    /\ \A h \in DOMAIN btypes :
         (IsAggregateHandle(h) /\ btypes[h].completed > 0) => PointerFieldsClosed(h)

\* struct Node resolved: its field next points to struct Node's own handle
C3_Witness ==
    /\ last.op = "typeof"
    /\ last.name = "struct Node"
    /\ last.ok
    /\ btypes[btypes[last.btype].fields[1]].item = last.btype
    /\ "A" \in DOMAIN cached_btypes
    /\ btypes[cached_btypes["A"]].completed = 1

(***************************************************************************)
(* C4.  No incomplete handle of an aggregate stays visible after its       *)
(* resolution failed: between the operations, every aggregate handle the   *)
(* backend-type cache holds has been completed.                            *)
(***************************************************************************)
C4_NoIncompleteHandleVisible ==
    \A t \in DOMAIN cached_btypes :
        IsStructOrUnion(t) => btypes[cached_btypes[t]].completed > 0

(***************************************************************************)
(* C5.  typeof(n) returns the identical handle every time it returns, and  *)
(* sizeof(n) is the backend's sizeof_type of the handle typeof(n) returns. *)
(***************************************************************************)
C5_CacheCoherence ==
    /\ \A x \in typeof_returned : \A y \in typeof_returned :
          x[1] = y[1] => x[2] = y[2]
    /\ \A x \in typeof_returned :
          x[1] \in DOMAIN parsed_types /\ parsed_types[x[1]] = x[2]
    /\ (last.op = "sizeof" /\ last.ok) =>
          /\ last.name \in DOMAIN parsed_types
          /\ last.calls = <<[fn |-> "sizeof_type", btype |-> parsed_types[last.name], name |-> ""]>>
          /\ last.ret = SizeofType(platform, btypes, parsed_types[last.name])

\* typeof("int") before and after new("int"), then sizeof("int")
C5_Witness ==
    /\ last.op = "sizeof"
    /\ last.name = "int"
    /\ last.ok
    /\ "int" \in DOMAIN new_types
    /\ <<"int", parsed_types["int"]>> \in typeof_returned

(***************************************************************************)
(* C6.  For every proxy p and declared function name f, load_function is   *)
(* invoked at most once for (p, f): the backend has made at most one bound *)
(* callable for the pair, the proxy's function_cache holds it, and every   *)
(* read of p.f so far has returned that one callable; no read makes more   *)
(* than one call of load_function and a read of a bound name makes none.   *)
(***************************************************************************)
BoundFor(p, name) == {f \in DOMAIN bound : f[1] = p /\ f[2] = name}

C6_BoundAtMostOnce ==
    /\ \A p \in 1..Len(libs) : \A name \in SymbolNames :
          /\ Cardinality(BoundFor(p, name)) <= 1
          /\ \A f \in BoundFor(p, name) :
                /\ name \in DOMAIN libs[p].function_cache
                /\ libs[p].function_cache[name] = f
    /\ \A x \in function_returned : \A y \in function_returned :
          (x[1] = y[1] /\ x[2] = y[2]) => x[3] = y[3]
    /\ \A x \in function_returned : x[3] \in BoundFor(x[1], x[2])
    /\ (last.op = "getattr" /\ last.fn # NoCallable) =>
          \/ last.calls = <<>>
          \/ last.calls = <<[fn |-> "load_function", btype |-> bound[last.fn],
                             name |-> last.name]>>

\* printf read again on a loaded library: the read calls nothing and
\* returns the callable of the first binding
C6_Witness ==
    /\ last.op = "getattr"
    /\ last.name = "printf"
    /\ last.lib = 2
    /\ last.fn = <<2, "printf", 1>>
    /\ last.calls = <<>>
    /\ <<1, "printf", 1>> \in DOMAIN bound

(***************************************************************************)
(* C7.  Every read of a declared variable on a proxy, other than errno on  *)
(* the default proxy, calls read_variable once, with the type handle the   *)
(* backend-type cache holds, and returns the value the library's memory    *)
(* holds at that moment, also after a write or a change from outside; no   *)
(* variable is ever in a function_cache.                                   *)
(***************************************************************************)
ReadFresh ==
          /\ last.ok
          /\ last.fn = NoCallable
          /\ last.ret = mem[libs[last.lib].path][last.name]
          /\ DictHas(cached_btypes, declarations[<<"variable", last.name>>])
          /\ last.calls =
               <<[fn |-> "read_variable",
                  btype |-> DictGet(cached_btypes, declarations[<<"variable", last.name>>]),
                  name |-> last.name]>>
          /\ last.newh = 0

C7_VariableReadFresh ==
    /\ \A p \in 1..Len(libs) : DOMAIN libs[p].function_cache \cap VarNames = {}
    /\ (/\ last.op = "getattr"
        /\ <<"variable", last.name>> \in DOMAIN declarations
        /\ ~(libs[last.lib].libname = None /\ last.name = "errno")) => ReadFresh

\* C7 as stated: every read of a declared variable on any proxy, a
\* declared errno on the default proxy included
C7_EveryVariableRead ==
    /\ \A p \in 1..Len(libs) : DOMAIN libs[p].function_cache \cap VarNames = {}
    /\ (/\ last.op = "getattr"
        /\ <<"variable", last.name>> \in DOMAIN declarations) => ReadFresh

\* v read on the loaded library after v was set to 1 there and not in the
\* default library
C7_Witness ==
    /\ last.op = "getattr"
    /\ last.name = "v"
    /\ last.lib = 2
    /\ last.ret = 1
    /\ mem["libm.so"]["v"] = 1
    /\ mem["libc.so"]["v"] = 0

(***************************************************************************)
(* C8.  Two nodes are equal, and hash identically, if and only if they     *)
(* have the same variant and the same identifying attributes, compared by  *)
(* value: the name of a primitive, the pointee of a pointer, the item and  *)
(* length of an array, the arguments, result and ellipsis (not the name)   *)
(* of a function, and the tag name alone of a struct, union or enum.       *)
(***************************************************************************)
RECURSIVE SameIdentity(_, _)
SameIdentities(xs, ys) ==
    /\ Len(xs) = Len(ys)
    /\ \A i \in 1..Len(xs) : SameIdentity(xs[i], ys[i])

SameIdentity(a, b) ==
    /\ Heap[a].cls = Heap[b].cls
    /\ LET x == Heap[a]
           y == Heap[b]
       IN CASE x.cls = "VoidType" -> TRUE
            [] x.cls = "PrimitiveType" -> x.name = y.name
            [] x.cls = "FunctionType" ->
                 /\ x.ellipsis = y.ellipsis
                 /\ SameIdentity(x.result, y.result)
                 /\ SameIdentities(x.args, y.args)
            [] x.cls = "PointerType" -> SameIdentity(x.totype, y.totype)
            [] x.cls = "ArrayType" -> x.length = y.length /\ SameIdentity(x.item, y.item)
            [] x.cls \in {"StructType", "UnionType", "EnumType"} -> x.name = y.name

C8_EqualByIdentity ==
    last.op = "eq" =>
       /\ last.eq = SameIdentity(last.name, last.other)
       /\ last.samehash = SameIdentity(last.name, last.other)

\* two structs of one tag whose fields differ have been compared, and are
\* equal
C8_Witness ==
    /\ last.op = "eq"
    /\ last.name = "Node"
    /\ last.other = "Node/other"
    /\ last.eq
    /\ last.samehash
    /\ ~SameNode("Node", "Node/other")

\* C8 as stated: equal, and of one hash, if and only if the variant and
\* every attribute are the same, so that structs that differ in their
\* fields and enums that differ in their enumerators are not equal
C8_EqualByAllAttributes ==
    last.op = "eq" =>
       /\ last.eq = SameNode(last.name, last.other)
       /\ last.samehash = SameNode(last.name, last.other)

(***************************************************************************)
(* C9.  A read or a write of a name that the declaration table holds       *)
(* neither as a function nor as a variable, other than errno on the        *)
(* default proxy, raises AttributeError, calls nothing of the backend and  *)
(* leaves the function caches, the backend-type cache, the bound callables *)
(* and the variables as they were.                                         *)
(***************************************************************************)
UnknownAccess ==
    /\ last'.op \in {"getattr", "setattr"}
    /\ <<"function", last'.name>> \notin DOMAIN declarations
    /\ <<"variable", last'.name>> \notin DOMAIN declarations

Refused ==
    /\ ~last'.ok
    /\ last'.exc = "AttributeError"
    /\ last'.calls = <<>>
    /\ libs' = libs
    /\ cached_btypes' = cached_btypes
    /\ btypes' = btypes
    /\ bound' = bound
    /\ mem' = mem
    /\ errno' = errno

C9_UnknownSymbol ==
    [][(UnknownAccess /\ ~(libs[last'.lib].libname = None /\ last'.name = "errno"))
          => Refused]_vars

\* errno has been refused on a loaded library, where it is not declared
C9_Witness ==
    /\ last.op = "setattr"
    /\ last.name = "errno"
    /\ last.lib = 2
    /\ last.exc = "AttributeError"
    /\ <<"variable", "v">> \in DOMAIN declarations

\* C9 as stated: on any proxy, errno on the default proxy included
C9_UnknownSymbolAnyProxy ==
    [][UnknownAccess => Refused]_vars

(***************************************************************************)
(* C10.  After construction, every name the backend reports as a           *)
(* nonstandard integer type is declared as a typedef of a primitive whose  *)
(* integer kind has, as probed, the reported size, and which is unsigned   *)
(* exactly when bit 0x1000 of the reported value is set; sizeof(name)      *)
(* returns the reported size.                                              *)
(***************************************************************************)
UnsignedNames == {"unsigned long long", "unsigned long", "unsigned int",
                  "unsigned short", "unsigned char"}

C10_NonstandardBootstrap ==
    constructed = "yes" =>
      \A name \in DOMAIN platform.ns :
         LET size == platform.ns[name] % 4096
             unsigned == (platform.ns[name] \div 4096) % 2 = 1
             key == <<"typedef", name>>
         IN /\ key \in DOMAIN declarations
            /\ Heap[declarations[key]].cls = "PrimitiveType"
            /\ Heap[declarations[key]].name \in PrimNames
            /\ platform.sizes[BaseKind(Heap[declarations[key]].name)] = size
            /\ (Heap[declarations[key]].name \in UnsignedNames) = unsigned
            /\ (last.op = "sizeof" /\ last.name = name) =>
                  (last.ok /\ last.ret = size)

\* sizeof("size_t") on a platform that reports size_t as unsigned, eight
\* bytes, and int16_t as signed, two bytes
C10_Witness ==
    /\ constructed = "yes"
    /\ last.op = "sizeof"
    /\ last.name = "size_t"
    /\ last.ret = 8
    /\ platform.sizes = ILP32Sizes
    /\ platform.ns = ("size_t" :> 4096 + 8) @@ ("int16_t" :> 2)
    /\ Heap[declarations[<<"typedef", "size_t">>]].name = "unsigned long long"

(***************************************************************************)
(* C11.  errno is special only on the default proxy.  There, declared or   *)
(* not, a read calls get_errno alone and returns the backend's errno, a    *)
(* write calls set_errno alone and sets it; neither binds, caches or       *)
(* resolves anything nor touches a variable.  On a loaded proxy errno is   *)
(* looked up as any name: read or written as the declared variable, or     *)
(* refused when it is not declared.                                        *)
(***************************************************************************)
ErrnoAccess(op, default) ==
    /\ last'.op = op
    /\ last'.name = "errno"
    /\ (libs[last'.lib].libname = None) = default

BackendCall(fn, BType, name) == <<[fn |-> fn, btype |-> BType, name |-> name]>>

NothingResolved ==
    /\ libs' = libs
    /\ bound' = bound
    /\ cached_btypes' = cached_btypes
    /\ btypes' = btypes

ErrnoType == DictGet(cached_btypes, declarations[<<"variable", "errno">>])

C11_ErrnoOnlyOnDefault ==
    [][/\ ErrnoAccess("getattr", TRUE) =>
            /\ last'.ok /\ last'.ret = errno /\ last'.fn = NoCallable
            /\ last'.calls = BackendCall("get_errno", NoHandle, "")
            /\ NothingResolved /\ mem' = mem /\ errno' = errno
       /\ ErrnoAccess("setattr", TRUE) =>
            /\ last'.ok /\ errno' = last'.value
            /\ last'.calls = BackendCall("set_errno", NoHandle, "")
            /\ NothingResolved /\ mem' = mem
       /\ (ErrnoAccess("getattr", FALSE) /\ <<"variable", "errno">> \in DOMAIN declarations) =>
            /\ last'.ok /\ last'.ret = mem[libs[last'.lib].path]["errno"]
            /\ last'.calls = BackendCall("read_variable", ErrnoType, "errno")
            /\ mem' = mem /\ errno' = errno
       /\ (ErrnoAccess("setattr", FALSE) /\ <<"variable", "errno">> \in DOMAIN declarations) =>
            /\ last'.ok
            /\ last'.calls = BackendCall("write_variable", ErrnoType, "errno")
            /\ mem' = [mem EXCEPT ![libs[last'.lib].path]["errno"] = last'.value]
            /\ errno' = errno
       /\ (\E op \in {"getattr", "setattr"} : ErrnoAccess(op, FALSE)
             /\ <<"variable", "errno">> \notin DOMAIN declarations) =>
            /\ last'.exc = "AttributeError"
            /\ last'.calls = <<>>
            /\ mem' = mem /\ errno' = errno
      ]_vars

\* errno is declared as a variable; it was set to 1 through the default
\* proxy and is read there, while the variable errno of both libraries is 0
C11_Witness ==
    /\ last.op = "getattr"
    /\ last.name = "errno"
    /\ last.lib = 1
    /\ last.ret = 1
    /\ errno = 1
    /\ Len(libs) = 2
    /\ <<"variable", "errno">> \in DOMAIN declarations
    /\ mem["libc.so"]["errno"] = 0
    /\ mem["libm.so"]["errno"] = 0

(***************************************************************************)
(* C12.  callback with a python_callable that is not callable raises       *)
(* TypeError before anything is resolved: no call of the backend, and the  *)
(* parsed-type cache, the backend-type cache and the handles stay as they  *)
(* were.  With a callable, a callback that returns has resolved the        *)
(* signature as typeof does, the handle now being in the parsed-type       *)
(* cache, and has called the backend's callback last, with that handle; a  *)
(* callback whose signature does not parse does not call it.               *)
(***************************************************************************)
C12_CallbackChecksCallable ==
    [][last'.op = "callback" =>
         /\ last'.value = 0 =>
              /\ ~last'.ok
              /\ last'.exc = "TypeError"
              /\ last'.calls = <<>>
              /\ parsed_types' = parsed_types
              /\ cached_btypes' = cached_btypes
              /\ btypes' = btypes
         /\ (last'.value = 1 /\ last'.ok) =>
              /\ last'.name \in DOMAIN parsed_types'
              /\ last'.name \in DOMAIN parsed_types =>
                    parsed_types'[last'.name] = parsed_types[last'.name]
              /\ last'.btype = parsed_types'[last'.name]
              /\ last'.calls # <<>>
              /\ last'.calls[Len(last'.calls)] =
                   [fn |-> "callback", btype |-> parsed_types'[last'.name], name |-> ""]
         /\ (last'.value = 1 /\ ~last'.ok) =>
              /\ last'.exc = "CDefError"
              /\ \A i \in 1..Len(last'.calls) : last'.calls[i].fn # "callback"
      ]_vars

\* a callback for "int (int)" with a callable has returned and has made
\* the handle of the signature, a function type
C12_Witness ==
    /\ last.op = "callback"
    /\ last.name = "int (int)"
    /\ last.value = 1
    /\ last.ok
    /\ last.newh = 1
    /\ btypes[last.btype].kind = "function"

(***************************************************************************)
(* C13.  new and typeof keep two caches of names.  Every entry of the      *)
(* new-instance-type cache is the handle of the force-pointer parse of its *)
(* name, a pointer, and every entry of the parsed-type cache is the handle *)
(* of the plain parse of its name; new leaves the parsed-type cache as it  *)
(* was, typeof leaves the new-instance-type cache as it was, typeof        *)
(* returns the plain handle and new allocates with the pointer handle, in  *)
(* any order of the calls.                                                 *)
(***************************************************************************)
PlainHandle(cdecl) == DictGet(cached_btypes, ParseType(declarations, cdecl, FALSE).node)
PointerHandle(cdecl) == DictGet(cached_btypes, ParseType(declarations, cdecl, TRUE).node)
HasPlainHandle(cdecl) == DictHas(cached_btypes, ParseType(declarations, cdecl, FALSE).node)
HasPointerHandle(cdecl) == DictHas(cached_btypes, ParseType(declarations, cdecl, TRUE).node)

TwoCaches ==
    /\ \A cdecl \in DOMAIN new_types :
          /\ ParseType(declarations, cdecl, TRUE).ok
          /\ HasPointerHandle(cdecl)
          /\ new_types[cdecl] = PointerHandle(cdecl)
          /\ btypes[new_types[cdecl]].kind = "pointer"
    /\ \A cdecl \in DOMAIN parsed_types :
          /\ ParseType(declarations, cdecl, FALSE).ok
          /\ HasPlainHandle(cdecl)
          /\ parsed_types[cdecl] = PlainHandle(cdecl)
    /\ (last.op = "typeof" /\ last.ok) =>
          /\ HasPlainHandle(last.name)
          /\ last.btype = PlainHandle(last.name)
    /\ (last.op = "new" /\ last.ok) =>
          /\ HasPointerHandle(last.name)
          /\ last.btype = PointerHandle(last.name)
          /\ last.calls[Len(last.calls)] =
               [fn |-> "newp", btype |-> PointerHandle(last.name), name |-> ""]
          /\ last.name \in DOMAIN parsed_types =>
               btypes[last.btype].item = parsed_types[last.name]

C13_SeparateNameCaches ==
    /\ []TwoCaches
    /\ [][/\ last'.op = "new" => parsed_types' = parsed_types
          /\ last'.op = "typeof" => new_types' = new_types]_vars

\* new("struct Node") after typeof("struct Node"): the two caches hold two
\* handles for the name, the pointer and its pointee
C13_Witness ==
    /\ last.op = "new"
    /\ last.name = "struct Node"
    /\ last.ok
    /\ "struct Node" \in DOMAIN parsed_types
    /\ new_types["struct Node"] # parsed_types["struct Node"]
    /\ btypes[new_types["struct Node"]].item = parsed_types["struct Node"]

(***************************************************************************)
(* C14.  A proxy looks into the declaration table at each access: a read   *)
(* of a name that is declared as a function or as a variable at the time   *)
(* of the read succeeds, whether the name was declared before or after the *)
(* proxy was made and whether or not an earlier read of it through that    *)
(* proxy was refused; a read is refused only while the name is undeclared. *)
(***************************************************************************)
C14_LookupAtAccess ==
    last.op = "getattr" =>
       /\ <<"function", last.name>> \in DOMAIN declarations =>
             /\ last.ok
             /\ last.fn \in DOMAIN bound
             /\ bound[last.fn] = DictGet(cached_btypes, declarations[<<"function", last.name>>])
       /\ (/\ <<"variable", last.name>> \in DOMAIN declarations
           /\ <<"function", last.name>> \notin DOMAIN declarations) =>
             /\ last.ok
             /\ last.ret = mem[libs[last.lib].path][last.name]
       /\ last.exc = "AttributeError" =>
             /\ <<"function", last.name>> \notin DOMAIN declarations
             /\ <<"variable", last.name>> \notin DOMAIN declarations

\* printf is read through the loaded proxy, which refused it before it was
\* declared, as the default proxy refused v
C14_Witness ==
    /\ last.op = "getattr"
    /\ last.name = "printf"
    /\ last.lib = 2
    /\ last.ok
    /\ last.fn = <<2, "printf", 1>>
    /\ <<2, "printf">> \in refused
    /\ <<1, "v">> \in refused

(***************************************************************************)
(* C15.  typeof, sizeof and alignof on names that are in the parsed-type   *)
(* cache only read: in any interleaving of the steps of several threads    *)
(* in such calls, no step changes the parsed-type cache, the               *)
(* new-instance-type cache or the backend-type cache or makes a handle,    *)
(* every thread holds the handle the parsed-type cache has for its name,   *)
(* so that threads on one name hold one handle, and sizeof and alignof     *)
(* return the backend's answer for it.                                     *)
(***************************************************************************)
HoldsHandle(t) == threads[t].pc \in {"backend", "return"}

SameHandles ==
    \A t \in Threads :
       /\ threads[t].pc # "idle" => threads[t].name \in DOMAIN parsed_types
       /\ HoldsHandle(t) =>
            /\ threads[t].btype = parsed_types[threads[t].name]
            /\ \A u \in Threads :
                 (HoldsHandle(u) /\ threads[u].name = threads[t].name) =>
                     threads[u].btype = threads[t].btype
            /\ \A x \in typeof_returned :
                 x[1] = threads[t].name => x[2] = threads[t].btype
       /\ (threads[t].pc = "return" /\ threads[t].op = "sizeof") =>
            threads[t].ret = SizeofType(platform, btypes, parsed_types[threads[t].name])
       /\ (threads[t].pc = "return" /\ threads[t].op = "alignof") =>
            threads[t].ret = AlignofType(platform, btypes, parsed_types[threads[t].name])

C15_WarmedReadsOnly ==
    /\ []SameHandles
    /\ [][threads' # threads =>
            /\ parsed_types' = parsed_types
            /\ new_types' = new_types
            /\ cached_btypes' = cached_btypes
            /\ btypes' = btypes]_vars

\* one thread is about to return from sizeof("struct Node") while the
\* other, in alignof of the same name, has got the handle too
C15_Witness ==
    /\ threads[1].op = "sizeof"
    /\ threads[1].name = "struct Node"
    /\ threads[1].pc = "return"
    /\ threads[1].ret = 8
    /\ threads[2].op = "alignof"
    /\ threads[2].name = "struct Node"
    /\ threads[2].pc = "backend"
    /\ threads[2].btype = threads[1].btype
    /\ "struct Node" \in DOMAIN new_types

(***************************************************************************)
(* C16.  cdef is atomic: a cdef whose source does not parse raises and     *)
(* leaves the declaration table exactly as it was before the call, with    *)
(* none of the declarations of that source; one that parses adds to the    *)
(* table and takes nothing from it.                                        *)
(***************************************************************************)
C16_CdefAtomic ==
    [][last'.op = "cdef" =>
         /\ ~last'.ok =>
               /\ last'.exc = "CDefError"
               /\ declarations' = declarations
         /\ last'.ok =>
               \A k \in DOMAIN declarations :
                   k \in DOMAIN declarations' /\ Eq(declarations'[k], declarations[k])
      ]_vars

\* the source that declares w and then fails to parse was given to cdef,
\* after one that declared printf: w is not declared, printf still is
C16_Witness ==
    /\ last.op = "cdef"
    /\ ~last.ok
    /\ <<"variable", "w">> \notin DOMAIN declarations
    /\ <<"function", "printf">> \in DOMAIN declarations

(***************************************************************************)
(* C17.  With a backend that reports no nonstandard integer type, the      *)
(* construction succeeds, and typeof of a spelling of a primitive type     *)
(* returns the one handle that new_primitive_type made for the name of     *)
(* that primitive: for "signed long int" the handle made for 'long', for   *)
(* "unsigned int" the one made for 'unsigned int'.                         *)
(***************************************************************************)
NameOfSpelling ==
    [cdecl \in PrimitiveSpellings |->
        CASE cdecl \in {"signed long int", "long", "signed long"} -> "long"
          [] cdecl = "int" -> "int"
          [] OTHER -> cdecl]

C17_TypeofPrimitive ==
    /\ constructed # "failed"
    /\ (last.op = "typeof" /\ last.name \in PrimitiveSpellings) =>
          /\ last.ok
          /\ last.btype \in DOMAIN btypes
          /\ btypes[last.btype] = [kind |-> "primitive", name |-> NameOfSpelling[last.name]]
          /\ \A h \in DOMAIN btypes :
                (btypes[h].kind = "primitive" /\ btypes[h].name = NameOfSpelling[last.name])
                    => h = last.btype
          /\ \A x \in typeof_returned :
                (x[1] \in PrimitiveSpellings /\ NameOfSpelling[x[1]] = NameOfSpelling[last.name])
                    => x[2] = last.btype

\* test_typeof: on the fake backend typeof("signed long int") has returned
\* the handle of 'long', which typeof("long") returned before
C17_Witness ==
    /\ platform.sizes = FakeSizes
    /\ constructed = "yes"
    /\ last.op = "typeof"
    /\ last.name = "signed long int"
    /\ btypes[last.btype].name = "long"
    /\ <<"long", last.btype>> \in typeof_returned

(***************************************************************************)
(* C18.  An aggregate is completed once, after its handle was cached and   *)
(* its field types were resolved, with the handles of the fields in field  *)
(* order: whenever a resolve made by typeof, sizeof or new has returned,   *)
(* every aggregate handle in the backend-type cache has been completed     *)
(* exactly once, with the cached handles of its field types in order.      *)
(***************************************************************************)
CompletedOnce(t) ==
    /\ btypes[cached_btypes[t]].completed = 1
    /\ Heap[t].fldtypes # None
    /\ Len(btypes[cached_btypes[t]].fields) = Len(TheValue(Heap[t].fldtypes))
    /\ \A i \in 1..Len(TheValue(Heap[t].fldtypes)) :
          /\ DictHas(cached_btypes, TheValue(Heap[t].fldtypes)[i])
          /\ btypes[cached_btypes[t]].fields[i] =
                DictGet(cached_btypes, TheValue(Heap[t].fldtypes)[i])

C18_CompletedOnceOnReturn ==
    (last.op \in {"typeof", "sizeof", "new"} /\ last.ok) =>
        \A t \in DOMAIN cached_btypes : IsStructOrUnion(t) => CompletedOnce(t)

(***************************************************************************)
(* C19.  The backend-type cache is stable and only grows: no operation     *)
(* removes an entry or gives a node another handle than it had, and every  *)
(* handle _get_cached_btype has ever returned for a node, nested calls     *)
(* included, is the handle the cache holds for that node, although the     *)
(* entry is assigned again when the resolution of the node finishes.       *)
(***************************************************************************)
ReturnedStayCached ==
    \A x \in returned :
        DictHas(cached_btypes, x[1]) /\ DictGet(cached_btypes, x[1]) = x[2]

C19_CacheStable ==
    /\ []ReturnedStayCached
    /\ [][\A t \in DOMAIN cached_btypes :
             /\ t \in DOMAIN cached_btypes'
             /\ cached_btypes'[t] = cached_btypes[t]]_vars

\* struct A and struct B, which refer to each other, and the pointer to
\* struct Node of the field and of new are resolved: the handles of the
\* structs were assigned twice
C19_Witness ==
    /\ last.op = "new"
    /\ last.name = "struct Node"
    /\ last.ok
    /\ last.newh = 0
    /\ <<"Node*/field", last.btype>> \in returned
    /\ <<"Node", btypes[last.btype].item>> \in returned
    /\ "A" \in DOMAIN cached_btypes
    /\ "B" \in DOMAIN cached_btypes
    /\ "Outer" \in DOMAIN cached_btypes

====
